---- MODULE Spec2Model ----
(***************************************************************************)
(* A model of ytgrab.py: one run of main() from the return of parse_args   *)
(* to process exit, with the file system of the output directory and the   *)
(* outcomes of the external tools (yt-dlp, ffmpeg, ffprobe) as the         *)
(* environment; and the pure function sanitize_filename applied to         *)
(* bounded inputs.                                                         *)
(***************************************************************************)
EXTENDS Integers, Sequences, FiniteSets, TLC

VARIABLES pc, args, tools, fs, missing, warned, exitStatus, fatal, invoked,
          fetch, info, shown, cmd, written, output_file, probe, display, san

vars == <<pc, args, tools, fs, missing, warned, exitStatus, fatal, invoked,
          fetch, info, shown, cmd, written, output_file, probe, display, san>>

(* ------------------------------ bounds --------------------------------- *)
\* greatest modification time of a file left by an earlier run
MaxPriorTime == 2
\* greatest length of the free prefix and of the free suffix of a file name
MaxAffix == 2

(* --------------------------- python helpers ---------------------------- *)
\* list.insert(i, x): a negative index counts from the end, and the index is
\* clamped to the list
ListInsertAppend(s, i, x) == Append(s, x)

ListInsert(s, i, x) ==
    LET j == IF i < 0 THEN i + Len(s) ELSE i
        k == IF j < 0 THEN 0 ELSE IF j > Len(s) THEN Len(s) ELSE j
    IN  SubSeq(s, 1, k) \o <<x>> \o SubSeq(s, k + 1, Len(s))

\* dict.get(key, default)
DictGet(d, key, default) == IF key \in DOMAIN d THEN d[key] ELSE default

PyStr(s) == [t |-> "str", v |-> s]
PyInt(n) == [t |-> "int", v |-> n]

\* format(value, ","): a thousands separator is a numeric format; on a str it
\* raises ValueError
FormatComma(val) ==
    IF val.t = "int" THEN [ok |-> TRUE, text |-> [t |-> "grouped", v |-> val.v]]
    ELSE [ok |-> FALSE, text |-> val]

(* ------------------------------ the run -------------------------------- *)
Urls == {"https://youtube.com/watch?v=a", "https://youtu.be/b", "https://example.com/c"}
\* the two substring tests of the URL check
HasYoutubeCom(url) == url = "https://youtube.com/watch?v=a"
HasYoutuBe(url) == url = "https://youtu.be/b"

\* the title the downloader substitutes for %(title)s
Title(url) ==
    CASE url = "https://youtube.com/watch?v=a" -> "A"
      [] url = "https://youtu.be/b" -> "B"
      [] OTHER -> "C"

Qualities == {"128", "192", "256", "320"}
OutputDirs == {"downloads"}
Tools == {"yt-dlp", "ffmpeg"}
ToolOutcomes == {"ok", "not_found", "error"}

FileName(stem, ext) == [stem |-> stem, ext |-> ext]
NoPath == FileName("", "")
PriorNames == {FileName("A", "mp3"), FileName("B", "mp3"), FileName("A", "jpg")}
PriorFiles == UNION {[S -> 1 .. MaxPriorTime] : S \in SUBSET PriorNames}
EmptyDir == [n \in {} |-> 0]
\* the modification time of a file written during this run
Now == MaxPriorTime + 1

\* sanitize_filename is defined and never called by main
Idle == [pc |-> "idle", name |-> <<>>, once |-> <<>>, twice |-> <<>>]

RunVarsInit ==
    /\ missing = <<>>
    /\ warned = FALSE
    /\ exitStatus = -1
    /\ fatal = "none"
    /\ invoked = <<>>
    /\ fetch = "none"
    /\ info = EmptyDir
    /\ shown = <<>>
    /\ cmd = <<>>
    /\ written = {}
    /\ output_file = NoPath
    /\ probe = [status |-> "none", doc |-> [t |-> "null", n |-> 0, d |-> EmptyDir]]
    /\ display = "none"

Init ==
    /\ pc = "check_dependencies"
    /\ args \in [url : Urls, output : OutputDirs, quality : Qualities,
                 keep_thumbnail : BOOLEAN, verbose : BOOLEAN, info_only : BOOLEAN]
    /\ tools \in [Tools -> ToolOutcomes]
    /\ fs \in {[dir_exists |-> FALSE, files |-> EmptyDir]}
              \cup {[dir_exists |-> TRUE, files |-> f] : f \in PriorFiles}
    /\ RunVarsInit
    /\ san = Idle

\* sys.exit(1), or an exception that nothing catches (the interpreter prints
\* the traceback and exits with status 1)
Exit1(reason) ==
    /\ pc' = "exited"
    /\ exitStatus' = 1
    /\ fatal' = reason

\* the list check_dependencies collects: a tool is missing when its version
\* query raises FileNotFoundError or CalledProcessError
MissingOfFirstOnly(t) ==
    IF t["yt-dlp"] # "ok" THEN <<"yt-dlp">>
    ELSE IF t["ffmpeg"] # "ok" THEN <<"ffmpeg">> ELSE <<>>

MissingOf(t) ==
    (IF t["yt-dlp"] # "ok" THEN <<"yt-dlp">> ELSE <<>>)
    \o (IF t["ffmpeg"] # "ok" THEN <<"ffmpeg">> ELSE <<>>)

CheckDependencies ==
    /\ pc = "check_dependencies"
    /\ invoked' = Append(invoked, "check_dependencies")
    /\ missing' = MissingOf(tools)
    /\ IF missing' # <<>>
       THEN Exit1("missing_dependency")
       ELSE /\ pc' = "validate_url"
            /\ UNCHANGED <<exitStatus, fatal>>
    /\ UNCHANGED <<args, tools, fs, warned, fetch, info, shown, cmd, written,
                   output_file, probe, display, san>>

ValidateUrl ==
    /\ pc = "validate_url"
    /\ warned' = (~HasYoutubeCom(args.url) /\ ~HasYoutuBe(args.url))
    /\ pc' = IF args.info_only THEN "get_video_info" ELSE "download_audio"
    /\ UNCHANGED <<args, tools, fs, missing, exitStatus, fatal, invoked, fetch,
                   info, shown, cmd, written, output_file, probe, display, san>>

(* ------------------------- metadata fetcher ---------------------------- *)
InfoKeys == {"title", "channel", "uploader", "duration_string", "upload_date",
             "view_count", "description"}
\* the value yt-dlp gives a field that is present
InfoValue(key) == IF key = "view_count" THEN PyInt(1234567) ELSE PyStr("text")
InfoDocs == {[k \in S |-> InfoValue(k)] : S \in SUBSET InfoKeys}

GetVideoInfo ==
    /\ pc = "get_video_info"
    /\ invoked' = Append(invoked, "get_video_info")
    /\ \E outcome \in {"process_error", "parse_error", "ok"} :
         /\ fetch' = outcome
         /\ IF outcome = "ok"
            THEN /\ \E d \in InfoDocs : info' = d
                 /\ pc' = "print_info"
                 /\ UNCHANGED <<exitStatus, fatal>>
            ELSE /\ info' = info
                 /\ Exit1(IF outcome = "process_error" THEN "fetch_process"
                          ELSE "fetch_parse")
    /\ UNCHANGED <<args, tools, fs, missing, warned, shown, cmd, written,
                   output_file, probe, display, san>>

\* the seven print statements of the info-only branch, in order
InfoLines ==
    << [key |-> "title", default |-> PyStr("Unknown"), fmt |-> "plain"],
       [key |-> "channel", default |-> PyStr("Unknown"), fmt |-> "plain"],
       [key |-> "uploader", default |-> PyStr("Unknown"), fmt |-> "plain"],
       [key |-> "duration_string", default |-> PyStr("Unknown"), fmt |-> "plain"],
       [key |-> "upload_date", default |-> PyStr("Unknown"), fmt |-> "plain"],
       [key |-> "view_count", default |-> PyStr("Unknown"), fmt |-> "comma"],
       [key |-> "description", default |-> PyStr("None"), fmt |-> "slice200"] >>

\* one f-string: the value or its default, then the format of the line
RenderLine(line, d) ==
    LET val == DictGet(d, line.key, line.default)
    IN  CASE line.fmt = "comma" -> FormatComma(val)
          [] line.fmt = "slice200" ->
               [ok |-> val.t = "str", text |-> [t |-> "slice200", v |-> val.v]]
          [] OTHER -> [ok |-> TRUE, text |-> val]

\* the index of the first print statement that raises, Len + 1 when none does
FirstRaise(d) ==
    LET bad == {i \in 1 .. Len(InfoLines) : ~RenderLine(InfoLines[i], d).ok}
    IN  IF bad = {} THEN Len(InfoLines) + 1
        ELSE CHOOSE i \in bad : \A j \in bad : i <= j

\* where main goes after the summary: the return of the info-only branch
AfterInfoFallThrough == "download_audio"

AfterInfo == "exited"

PrintVideoInfo ==
    /\ pc = "print_info"
    /\ LET stop == FirstRaise(info)
       IN  /\ shown' = [i \in 1 .. stop - 1 |->
                          [key |-> InfoLines[i].key,
                           placeholder |-> InfoLines[i].key \notin DOMAIN info,
                           text |-> RenderLine(InfoLines[i], info).text]]
           /\ IF stop <= Len(InfoLines)
              THEN Exit1("uncaught_exception")
              ELSE /\ pc' = AfterInfo
                   /\ exitStatus' = IF AfterInfo = "exited" THEN 0 ELSE exitStatus
                   /\ fatal' = fatal
    /\ UNCHANGED <<args, tools, fs, missing, warned, invoked, fetch, info, cmd,
                   written, output_file, probe, display, san>>

(* ------------------------ acquisition pipeline ------------------------- *)
Range(s) == {s[i] : i \in 1 .. Len(s)}

\* the argument list of download_audio
BuildCmd(url, output_dir, quality, keep_thumbnail, verbose) ==
    LET output_template == output_dir \o "/" \o "%(title)s.%(ext)s"
        base == << "yt-dlp",
                   "-x",
                   "--audio-format", "mp3",
                   "--audio-quality", quality \o "K",
                   "--embed-thumbnail",
                   "--embed-metadata",
                   "--add-metadata",
                   "--parse-metadata", "%(title)s:%(meta_title)s",
                   "--parse-metadata", "%(uploader)s:%(meta_artist)s",
                   "--parse-metadata", "%(channel)s:%(meta_album_artist)s",
                   "--convert-thumbnails", "jpg",
                   "-o", output_template,
                   "--no-overwrites",
                   url >>
        c1 == IF keep_thumbnail THEN ListInsert(base, -1, "--write-thumbnail")
              ELSE base
    IN  IF ~verbose THEN ListInsert(ListInsert(c1, 1, "-q"), 2, "--progress")
        ELSE c1

\* output_dir.mkdir(parents=True, exist_ok=True)
Mkdir(f) == [f EXCEPT !.dir_exists = TRUE]

\* what one invocation of the downloader does to the output directory
DownloaderOutcomes == {"fail", "ok", "ok_nothing"}

\* the downloader writes name unless it exists and overwriting is off
WriteFile(files, name, overwrite) ==
    IF name \in DOMAIN files /\ ~overwrite THEN files
    ELSE [n \in DOMAIN files \cup {name} |-> IF n = name THEN Now ELSE files[n]]

RunDownloader(files, c, outcome) ==
    LET url == c[Len(c)]
        overwrite == "--no-overwrites" \notin Range(c)
        audio == FileName(Title(url), "mp3")
        thumb == FileName(Title(url), "jpg")
        f1 == WriteFile(files, audio, overwrite)
        f2 == IF "--write-thumbnail" \in Range(c) THEN WriteFile(f1, thumb, overwrite)
              ELSE f1
    IN  IF outcome = "ok" THEN f2 ELSE files

\* output_dir.glob("*.mp3")
Glob(files, ext) == {n \in DOMAIN files : n.ext = ext}

\* max(mp3_files, key=st_mtime): the candidates max can return; among equal
\* keys it returns the first in the order of glob, which is the order of the
\* directory listing
Oldest(files, names) == {n \in names : \A m \in names : files[n] <= files[m]}

Latest(files, names) == {n \in names : \A m \in names : files[m] <= files[n]}

DownloadAudio ==
    /\ pc = "download_audio"
    /\ invoked' = Append(invoked, "download_audio")
    /\ cmd' = BuildCmd(args.url, args.output, args.quality, args.keep_thumbnail,
                       args.verbose)
    /\ \E outcome \in DownloaderOutcomes :
         LET before == Mkdir(fs)
             after == RunDownloader(before.files, cmd', outcome)
             mp3_files == Glob(after, "mp3")
         IN  /\ fs' = [before EXCEPT !.files = after]
             /\ written' = {n \in DOMAIN after :
                              n \notin DOMAIN before.files
                              \/ after[n] # before.files[n]}
             /\ IF outcome = "fail"
                THEN /\ Exit1("acquisition_process")
                     /\ output_file' = output_file
                ELSE IF mp3_files = {}
                THEN /\ Exit1("artifact_not_found")
                     /\ output_file' = output_file
                ELSE /\ \E p \in Latest(after, mp3_files) : output_file' = p
                     /\ pc' = "display_metadata"
                     /\ UNCHANGED <<exitStatus, fatal>>
    /\ UNCHANGED <<args, tools, missing, warned, fetch, info, shown, probe,
                   display, san>>

(* ------------------------- metadata reporter --------------------------- *)
\* JSON values as json.loads returns them
JNull == [t |-> "null", n |-> 0, d |-> EmptyDir]
JList(n) == [t |-> "list", n |-> n, d |-> EmptyDir]
JStr == [t |-> "str", n |-> 1, d |-> EmptyDir]
JDict(d) == [t |-> "dict", n |-> Cardinality(DOMAIN d), d |-> d]
Key(k, v) == [x \in {k} |-> v]

ProbeDocs ==
    { JList(0),
      JDict(EmptyDir),
      JDict(Key("format", JNull)),
      JDict(Key("format", JDict(EmptyDir))),
      JDict(Key("format", JDict(Key("tags", JNull)))),
      JDict(Key("format", JDict(Key("tags", JDict(EmptyDir))))),
      JDict(Key("format", JDict(Key("tags", JList(1))))),
      JDict(Key("format", JDict(Key("tags", JDict(Key("title", JStr)))))) }

\* value.get(key, default): only a dict has the method
PyGet(val, key, default) ==
    IF val.t = "dict" THEN [ok |-> TRUE, val |-> DictGet(val.d, key, default)]
    ELSE [ok |-> FALSE, val |-> JNull]

\* the truth value of a JSON value
Truthy(val) == val.t # "null" /\ val.n > 0

\* the try block of display_metadata on a parsed document
RenderTags(doc) ==
    LET format == PyGet(doc, "format", JDict(EmptyDir))
        tags == PyGet(format.val, "tags", JDict(EmptyDir))
    IN  IF ~format.ok \/ ~tags.ok THEN "AttributeError"
        ELSE IF ~Truthy(tags.val) THEN "no_tags"
        ELSE IF tags.val.t # "dict" THEN "AttributeError"
        ELSE "tags"

NoProbe == [status |-> "none", doc |-> JNull]

DisplayMetadata ==
    /\ pc = "display_metadata"
    /\ invoked' = Append(invoked, "display_metadata")
    /\ \E r \in {[status |-> st, doc |-> JNull] :
                   st \in {"not_found", "process_error", "parse_error"}}
                \cup {[status |-> "ok", doc |-> doc] : doc \in ProbeDocs} :
         /\ probe' = r
         /\ IF r.status # "ok"
            THEN /\ display' = "unreadable"
                 /\ pc' = "exited"
                 /\ exitStatus' = 0
                 /\ fatal' = fatal
            ELSE IF RenderTags(r.doc) = "AttributeError"
            THEN /\ display' = display
                 /\ Exit1("uncaught_exception")
            ELSE /\ display' = RenderTags(r.doc)
                 /\ pc' = "exited"
                 /\ exitStatus' = 0
                 /\ fatal' = fatal
    /\ UNCHANGED <<args, tools, fs, missing, warned, fetch, info, shown, cmd,
                   written, output_file, san>>

Next ==
    \/ CheckDependencies
    \/ ValidateUrl
    \/ GetVideoInfo
    \/ PrintVideoInfo
    \/ DownloadAudio
    \/ DisplayMetadata

Spec == Init /\ [][Next]_vars

(* ------------------------- filename sanitizer -------------------------- *)
MaxFilenameLen == 200
InvalidChars == {"<", ">", ":", "\"", "/", "\\", "|", "?", "*"}
StripChars == {".", " "}

\* str.strip(chars): drop the longest prefix and suffix made of chars
Strip(s, chars) ==
    LET keep == {i \in 1 .. Len(s) : s[i] \notin chars}
    IN  IF keep = {} THEN <<>>
        ELSE LET lo == CHOOSE i \in keep : \A j \in keep : i <= j
                 hi == CHOOSE i \in keep : \A j \in keep : j <= i
             IN  SubSeq(s, lo, hi)

\* re.sub(invalid_chars, '', name)
IsValidChar(c) == c \notin InvalidChars
RemoveInvalid(name) == SelectSeq(name, IsValidChar)

sanitize_filename(name) ==
    LET sanitized == Strip(RemoveInvalid(name), StripChars)
    IN  IF Len(sanitized) > MaxFilenameLen THEN SubSeq(sanitized, 1, MaxFilenameLen)
        ELSE sanitized

\* the names the function is applied to: a free prefix, a run of letters and
\* a free suffix, with total lengths on both sides of the length limit
Alphabet == {"a", ".", " ", "<"}
Affixes == UNION {[1 .. k -> Alphabet] : k \in 0 .. MaxAffix}
Fill(n) == [i \in 1 .. n |-> "a"]
FillLens == {0} \cup ((MaxFilenameLen - 3) .. (MaxFilenameLen + 1))
Names == {pre \o Fill(n) \o suf : pre \in Affixes, suf \in Affixes, n \in FillLens}

InitSan ==
    /\ pc = "library"
    /\ args = [url |-> "https://youtube.com/watch?v=a", output |-> "downloads",
               quality |-> "192", keep_thumbnail |-> FALSE, verbose |-> FALSE,
               info_only |-> FALSE]
    /\ tools = [t \in Tools |-> "ok"]
    /\ fs = [dir_exists |-> FALSE, files |-> EmptyDir]
    /\ RunVarsInit
    /\ san \in {[pc |-> "start", name |-> n, once |-> <<>>, twice |-> <<>>] :
                  n \in Names}

runVars == <<pc, args, tools, fs, missing, warned, exitStatus, fatal, invoked,
             fetch, info, shown, cmd, written, output_file, probe, display>>

SanitizeOnce ==
    /\ san.pc = "start"
    /\ san' = [san EXCEPT !.pc = "once", !.once = sanitize_filename(san.name)]
    /\ UNCHANGED runVars

SanitizeTwice ==
    /\ san.pc = "once"
    /\ san' = [san EXCEPT !.pc = "twice", !.twice = sanitize_filename(san.once)]
    /\ UNCHANGED runVars

NextSan == SanitizeOnce \/ SanitizeTwice

SpecSan == InitSan /\ [][NextSan]_vars

(* ------------------------------ properties ----------------------------- *)
Mp3Files == Glob(fs.files, "mp3")
DistinctTimes(names) ==
    \A m \in names : \A n \in names : m # n => fs.files[m] # fs.files[n]
\* download_audio ran and its downloader exited with status 0
DownloaderSucceeded ==
    "download_audio" \in Range(invoked) /\ fatal # "acquisition_process"

\* C1: after the downloader exits 0, if the output directory holds *.mp3
\* files with distinct modification times download_audio returns the one
\* with the greatest modification time, and if it holds none the run reports
\* the artifact as not found and exits with status 1 without returning a path.
ArtifactResolution ==
    DownloaderSucceeded =>
        /\ (Mp3Files # {} /\ DistinctTimes(Mp3Files)) =>
               /\ output_file \in Mp3Files
               /\ \A m \in Mp3Files : fs.files[m] <= fs.files[output_file]
        /\ Mp3Files = {} =>
               /\ fatal = "artifact_not_found"
               /\ pc = "exited"
               /\ exitStatus = 1
               /\ output_file = NoPath

ArtifactResolutionWitness ==
    /\ DownloaderSucceeded
    /\ Cardinality(Mp3Files) >= 2
    /\ DistinctTimes(Mp3Files)
    /\ output_file \in Mp3Files

\* C2: whenever download_audio returns a path, that path is the audio file
\* of the requested URL, written by this run's invocation of the downloader,
\* whatever earlier runs left in the output directory.
ReturnedPathIsThisRunsAudio ==
    output_file # NoPath =>
        /\ output_file = FileName(Title(args.url), "mp3")
        /\ output_file \in written

AbsentTools == {t \in Tools : tools[t] # "ok"}

\* C3: once the dependency probe has run, if a required tool is absent or
\* erroring the run has printed exactly the absent tool names, has exited
\* with status 1 and has executed no later step; if both are present the
\* probe passes and the run goes on.
DependencyProbe ==
    Len(invoked) >= 1 =>
        /\ AbsentTools # {} =>
               /\ Range(missing) = AbsentTools
               /\ Len(missing) = Cardinality(AbsentTools)
               /\ pc = "exited"
               /\ exitStatus = 1
               /\ invoked = <<"check_dependencies">>
               /\ fetch = "none"
               /\ cmd = <<>>
               /\ written = {}
               /\ probe = NoProbe
        /\ AbsentTools = {} =>
               /\ missing = <<>>
               /\ fatal # "missing_dependency"
               /\ pc # "check_dependencies"
               /\ pc = "exited" => Len(invoked) >= 2

DependencyProbeWitness ==
    /\ pc = "exited"
    /\ Len(missing) = 2
    /\ tools["yt-dlp"] = "not_found"
    /\ tools["ffmpeg"] = "error"

ListedFatal == {"missing_dependency", "fetch_process", "fetch_parse",
                "acquisition_process", "artifact_not_found"}

\* C4: a run that has terminated has exit status 1 exactly when one of the
\* fatal errors (missing dependency, fetch failure, acquisition failure,
\* artifact not found) occurred, and exit status 0 otherwise; the run stops
\* at the step of the fatal error.
ExitStatusContract ==
    pc = "exited" =>
        /\ fatal \in ListedFatal => exitStatus = 1
        /\ fatal \notin ListedFatal => exitStatus = 0
        /\ fatal = "missing_dependency" => invoked = <<"check_dependencies">>
        /\ fatal \in {"fetch_process", "fetch_parse"} =>
               (invoked[Len(invoked)] = "get_video_info" /\ shown = <<>>)
        /\ fatal \in {"acquisition_process", "artifact_not_found"} =>
               (invoked[Len(invoked)] = "download_audio" /\ probe = NoProbe)

\* the probe printed a document with a format.tags mapping
HasTagsMapping ==
    /\ probe.status = "ok"
    /\ probe.doc.t = "dict"
    /\ "format" \in DOMAIN probe.doc.d
    /\ probe.doc.d["format"].t = "dict"
    /\ "tags" \in DOMAIN probe.doc.d["format"].d
    /\ probe.doc.d["format"].d["tags"].t = "dict"

\* C5: after a successful acquisition, whatever the probe invocation gives
\* that is not a document with a format.tags mapping, display_metadata
\* returns with a degraded display and the run exits with status 0.
ReporterNeverFatal ==
    (pc = "exited" /\ probe.status # "none" /\ ~HasTagsMapping) =>
        /\ exitStatus = 0
        /\ display \in {"unreadable", "no_tags"}

\* C6: in info-only mode, after a successful fetch, the summary prints all
\* seven lines, a placeholder for each absent field, and the run exits with
\* status 0.
MissingFieldsDegrade ==
    (pc = "exited" /\ args.info_only /\ fetch = "ok") =>
        /\ exitStatus = 0
        /\ Len(shown) = Len(InfoLines)
        /\ \A i \in 1 .. Len(shown) :
               shown[i].placeholder <=> (InfoLines[i].key \notin DOMAIN info)

\* C7: in a run with --info-only no step changes the output directory (it
\* is not created and no file is written), and neither download_audio nor
\* display_metadata is invoked.
InfoOnlyLeavesFilesystem ==
    [][args.info_only =>
           /\ fs' = fs
           /\ "download_audio" \notin Range(invoked')
           /\ "display_metadata" \notin Range(invoked')]_vars

InfoOnlyWitness ==
    /\ args.info_only
    /\ pc = "exited"
    /\ exitStatus = 0
    /\ fetch = "ok"
    /\ ~fs.dir_exists

NoEdgeStripChar(s) ==
    s # <<>> => (s[1] \notin StripChars /\ s[Len(s)] \notin StripChars)

\* C8: the output of sanitize_filename has no leading and no trailing '.'
\* or space, for every input.
SanitizerTrim ==
    san.pc \in {"once", "twice"} => NoEdgeStripChar(san.once)

\* C9: sanitize_filename(sanitize_filename(x)) = sanitize_filename(x) for
\* every input x.
SanitizerIdempotent ==
    san.pc = "twice" => san.twice = san.once

OptionalFlags == {"--write-thumbnail", "-q", "--progress"}
IsFixedArg(x) == x \notin OptionalFlags
Count(s, x) == Cardinality({i \in 1 .. Len(s) : s[i] = x})

====
